---- MODULE Spec2Model ----
(***************************************************************************)
(* The embedding / retrieval pipeline of support-copilot:                  *)
(*   EmbeddingService.generate_embedding, store_embedding                  *)
(*   RetrievalService.search_similar_tickets                               *)
(* over the BigQuery table ticket_embeddings.                              *)
(*                                                                         *)
(* Python values are records carrying their type (ty), so that the         *)
(* isinstance checks of the code are checks of the model.                  *)
(***************************************************************************)
EXTENDS Integers, Sequences, FiniteSets, TLC

\* ------------------------------------------------------------- bounds
\* rows the ticket_embeddings table may hold (INSERTs are cut off there)
MaxRows == 3
\* ticket ids 1..MaxTicketId are used by callers
MaxTicketId == 2
\* longest text handed to generate_embedding
MaxTextLen == 2
\* request handlers that call store_embedding at the same time
NumCallers == 2
\* largest limit passed to search_similar_tickets
MaxLimit == 2
\* rows of the tables the ranking of search_similar_tickets is checked on
MaxRankRows == 4

\* ---------------------------------------------------------- constants
\* the dimension of text-embedding-004 vectors
EMBED_DIM == 768

\* ------------------------------------------------------ python values
PyNone == [ty |-> "NoneType", v |-> 0]
PyInt(n) == [ty |-> "int", v |-> n]
PyFloat(n) == [ty |-> "float", v |-> n]
PyStrScalar == [ty |-> "str", v |-> 0]

\* A Python sequence of scalars, kept sparsely: its length, the fill value
\* and the entries that differ from the fill value (index -> scalar).
PyList(n, at, fill) == [ty |-> "list", len |-> n, at |-> at, fill |-> fill]
PyTuple(n, at, fill) == [ty |-> "tuple", len |-> n, at |-> at, fill |-> fill]
NoVector == [ty |-> "NoneType", len |-> 0, at |-> <<>>, fill |-> PyNone]

\* len(vector)
VLen(vector) == vector.len

\* vector[i - 1]
Item(vector, i) == IF i \in DOMAIN vector.at THEN vector.at[i] ELSE vector.fill

PyStr(s) == [ty |-> "str", s |-> s]
NoText == [ty |-> "NoneType", s |-> <<>>]

\* isinstance(x, int)
IsInstanceInt(x) == x.ty \in {"int", "bool"}

\* isinstance(x, (int, float))
IsInstanceNumber(x) == x.ty \in {"int", "bool", "float"}

\* ------------------------------------------------------------- texts
Whitespace == {" ", "\t", "\n", "\r"}

RECURSIVE LStrip(_)
LStrip(s) == IF s # <<>> /\ Head(s) \in Whitespace THEN LStrip(Tail(s)) ELSE s

RECURSIVE RStrip(_)
RStrip(s) ==
    IF s # <<>> /\ s[Len(s)] \in Whitespace
    THEN RStrip(SubSeq(s, 1, Len(s) - 1))
    ELSE s

\* str.strip()
Strip(s) == RStrip(LStrip(s))

\* every sequence over S of length at most n
SeqsUpTo(S, n) == UNION {[1..k -> S] : k \in 0..n}

Chars == {"a", " ", "\n", "\r", "'", "\\"}

\* the texts callers pass: str values over Chars, and None
Texts == {PyStr(s) : s \in SeqsUpTo(Chars, MaxTextLen)} \cup {NoText}

\* ------------------------------------------------------------ vectors
\* n floats: 1.0 in position k, 0.0 elsewhere (values in tenths)
UnitAt(k) == [i \in {k} |-> PyFloat(10)]

EmbA == PyList(EMBED_DIM, UnitAt(1), PyFloat(0))
EmbB == PyList(EMBED_DIM, UnitAt(2), PyFloat(0))
EmbShort == PyList(EMBED_DIM - 1, UnitAt(1), PyFloat(0))
EmbLong == PyList(EMBED_DIM + 1, UnitAt(1), PyFloat(0))
EmbEmpty == PyList(0, <<>>, PyFloat(0))
\* 768 elements, one of them (the last) not a number
EmbNonNumeric == PyList(EMBED_DIM, UnitAt(1) @@ (EMBED_DIM :> PyStrScalar), PyFloat(0))
EmbTuple == PyTuple(EMBED_DIM, UnitAt(1), PyFloat(0))

TxtA == PyStr(<<"a">>)
TxtB == PyStr(<<"b">>)

\* ------------------------------------------------------------- state
VARIABLES
    embeddings,   \* the table ticket_embeddings: a sequence of rows, in insertion order
    now,          \* the backend's clock, read by CURRENT_TIMESTAMP()
    last,         \* the most recent completed call: its arguments and what the caller saw
    callers       \* store_embedding calls of concurrent request handlers

vars == <<embeddings, now, last, callers>>

\* ------------------------------------------------- the backend's table
Row(id, vec, txt, ts) ==
    [ticket_id |-> id, embedding_vector |-> vec, text_content |-> txt, created_at |-> ts]

RowsOf(T, id) == {i \in DOMAIN T : T[i].ticket_id = id}

\* ArrayQueryParameter("embedding", "FLOAT64", vector): the FLOAT64 values
Float64Array(vector) ==
    [len |-> vector.len,
     at |-> [i \in DOMAIN vector.at |-> vector.at[i].v],
     fill |-> vector.fill.v]

\* the same MERGE with text_content left out of UPDATE SET
MergeMissesText(T, id, vec, txt, ts) ==
    IF RowsOf(T, id) # {}
    THEN [i \in DOMAIN T |->
            IF T[i].ticket_id = id THEN [T[i] EXCEPT !.embedding_vector = vec] ELSE T[i]]
    ELSE Append(T, Row(id, vec, txt, ts))

\* the same MERGE with created_at = CURRENT_TIMESTAMP() added to UPDATE SET
MergeResetsCreatedAt(T, id, vec, txt, ts) ==
    IF RowsOf(T, id) # {}
    THEN [i \in DOMAIN T |->
            IF T[i].ticket_id = id THEN Row(id, vec, txt, ts) ELSE T[i]]
    ELSE Append(T, Row(id, vec, txt, ts))

\* MERGE ... ON T.ticket_id = S.ticket_id
\*   WHEN MATCHED THEN UPDATE SET embedding_vector, text_content
\*   WHEN NOT MATCHED THEN INSERT (..., CURRENT_TIMESTAMP())
\* one statement: every matching row is updated, or one row is inserted
MergeStatement(T, id, vec, txt, ts) ==
    IF RowsOf(T, id) # {}
    THEN [i \in DOMAIN T |->
            IF T[i].ticket_id = id
            THEN [T[i] EXCEPT !.embedding_vector = vec, !.text_content = txt]
            ELSE T[i]]
    ELSE Append(T, Row(id, vec, txt, ts))

\* INSERT INTO ... VALUES (@ticket_id, @embedding, @text, CURRENT_TIMESTAMP())
\* the table declares no key: the row is appended whatever it holds
InsertStatement(T, id, vec, txt, ts) == Append(T, Row(id, vec, txt, ts))

\* --------------------------------------------------- store_embedding
\* all(isinstance(x, (int, float)) for x in vector)
AllNumbers(vector) ==
    /\ \A i \in DOMAIN vector.at : IsInstanceNumber(vector.at[i])
    /\ Cardinality(DOMAIN vector.at) < vector.len => IsInstanceNumber(vector.fill)

\* the validation without the len(vector) != 768 test
ValidationSkipsLength(ticket_id, vector) ==
    IF ~IsInstanceInt(ticket_id) THEN "ValueError"
    ELSE IF vector.ty # "list"
            \/ ~AllNumbers(vector)
         THEN "ValueError"
    ELSE "ok"

\* the validation at the head of store_embedding: "ok" or the error raised
StoreValidation(ticket_id, vector) ==
    IF ~IsInstanceInt(ticket_id) THEN "ValueError"
    ELSE IF vector.ty # "list"
            \/ ~AllNumbers(vector)
         THEN "ValueError"
    ELSE IF VLen(vector) # EMBED_DIM THEN "ValueError"
    ELSE "ok"

\* if text is None: text = ""
TextOrEmpty(text) == IF text.ty = "NoneType" THEN <<>> ELSE text.s

\* the statement store_embedding sends, applied to table T at time ts
StoreStatement(T, a, ts) ==
    IF a.upsert
    THEN MergeStatement(T, a.ticket_id.v, Float64Array(a.vector), TextOrEmpty(a.text), ts)
    ELSE InsertStatement(T, a.ticket_id.v, Float64Array(a.vector), TextOrEmpty(a.text), ts)

\* an except clause that returns the status dict instead of raising
OutcomeSwallowsFailure(backendOk) == "success"

\* what the caller of store_embedding sees once the job has ended:
\* the status dict, or the backend's exception raised again
StoreOutcome(backendOk) == IF backendOk THEN "success" ELSE "BackendError"

Payloads == {[vector |-> EmbA, text |-> TxtA], [vector |-> EmbB, text |-> TxtB]}

StoreArgs(id, vec, txt, u) == [ticket_id |-> id, vector |-> vec, text |-> txt, upsert |-> u]

ValidStoreInputs ==
    {StoreArgs(PyInt(t), p.vector, p.text, u) :
        t \in 1..MaxTicketId, p \in Payloads, u \in BOOLEAN}
    \cup {StoreArgs(PyInt(1), EmbA, NoText, TRUE)}

InvalidStoreInputs ==
    {StoreArgs(id, EmbA, TxtA, TRUE) : id \in {PyStrScalar, PyFloat(1), PyNone}}
    \cup {StoreArgs(PyInt(1), vec, TxtA, TRUE) :
            vec \in {EmbShort, EmbLong, EmbEmpty, EmbNonNumeric, EmbTuple, NoVector}}
    \cup {StoreArgs(PyNone, EmbShort, TxtA, TRUE), StoreArgs(PyInt(1), EmbShort, TxtA, FALSE)}

StoreInputs == ValidStoreInputs \cup InvalidStoreInputs

\* a statement that inserts a row is cut off at MaxRows rows
Fits(T, a) == (a.upsert /\ RowsOf(T, a.ticket_id.v) # {}) \/ Len(T) < MaxRows

\* store_embedding(ticket_id, vector, text, upsert=...), one whole call;
\* backendOk is whether the backend runs the job to its end
StoreEmbedding(a, backendOk) ==
    /\ LET v == StoreValidation(a.ticket_id, a.vector) IN
       IF v # "ok"
       THEN /\ last' = [op |-> "store_embedding", args |-> a, outcome |-> v,
                        backend |-> "none", nq |-> 0]
            /\ UNCHANGED <<embeddings, now>>
       ELSE /\ backendOk => Fits(embeddings, a)
            /\ embeddings' =
                  IF backendOk THEN StoreStatement(embeddings, a, now) ELSE embeddings
            /\ now' = IF Len(embeddings') > Len(embeddings) THEN now + 1 ELSE now
            /\ last' = [op |-> "store_embedding", args |-> a,
                        outcome |-> StoreOutcome(backendOk),
                        backend |-> IF backendOk THEN "ok" ELSE "failed", nq |-> 1]
    /\ UNCHANGED callers

\* --------------------- POST /embedding/store/{ticket_id} (main.py)
\* def store_embedding(self, ticket_id, vector, text, *, upsert=True)
StoreParams == {"ticket_id", "vector", "text", "upsert"}
StoreRequired == {"ticket_id", "vector", "text"}

\* Python's binding of a call made with keywords to a signature: "ok", or
\* TypeError for a keyword that is no parameter or a parameter left unbound
BindCall(keywords, params, required) ==
    IF keywords \subseteq params /\ required \subseteq keywords THEN "ok" ELSE "TypeError"

\* store_embedding(ticket_id=..., vector=..., ticket_resolution=..., upsert=True)
EndpointKeywords == {"ticket_id", "vector", "ticket_resolution", "upsert"}

\* except ValueError -> 400; except Exception -> 500; else the status dict
EndpointOutcome(outcome) ==
    IF outcome = "success" THEN "success"
    ELSE IF outcome = "ValueError" THEN "HTTP400"
    ELSE "HTTP500"

EndpointRecord(a, working, outcome, nq) ==
    [op |-> "store_ticket_embedding", args |-> a, working |-> working,
     outcome |-> outcome, nq |-> nq]

\* store_ticket_embedding(ticket_id, request), one whole request; a carries
\* the path's ticket_id and the body's vector and ticket_resolution (as text)
StoreTicketEmbedding(a, backendOk) ==
    /\ IF BindCall(EndpointKeywords, StoreParams, StoreRequired) # "ok"
       THEN /\ last' = EndpointRecord(a, backendOk, EndpointOutcome("TypeError"), 0)
            /\ UNCHANGED <<embeddings, now>>
       ELSE LET v == StoreValidation(a.ticket_id, a.vector) IN
            IF v # "ok"
            THEN /\ last' = EndpointRecord(a, backendOk, EndpointOutcome(v), 0)
                 /\ UNCHANGED <<embeddings, now>>
            ELSE /\ backendOk => Fits(embeddings, a)
                 /\ embeddings' =
                       IF backendOk THEN StoreStatement(embeddings, a, now) ELSE embeddings
                 /\ now' = IF Len(embeddings') > Len(embeddings) THEN now + 1 ELSE now
                 /\ last' = EndpointRecord(a, backendOk,
                                           EndpointOutcome(StoreOutcome(backendOk)), 1)
    /\ UNCHANGED callers

\* the requests the route accepts: an int in the path, a body whose vector
\* is a list of floats (of any length) and whose ticket_resolution is a str
EndpointInputs ==
    {StoreArgs(PyInt(t), vec, txt, TRUE) :
        t \in 1..MaxTicketId, vec \in {EmbA, EmbB, EmbShort}, txt \in {TxtA, TxtB}}

\* ------------------------------------------------ generate_embedding
\* the test without text.strip()
IsBlankNoStrip(text) == text.ty = "NoneType" \/ text.s = <<>>

\* not text or not text.strip()
IsBlank(text) == text.ty = "NoneType" \/ text.s = <<>> \/ Strip(text.s) = <<>>

\* the test without len(embedding_result) != 768
ShapeAnyList(value) == value.ty = "list"

\* isinstance(embedding_result, list) and len(embedding_result) == 768
EmbeddingShapeOK(value) == value.ty = "list" /\ VLen(value) = EMBED_DIM

\* what the backend does with the ML.GENERATE_EMBEDDING query: the query or
\* job.result() raises, the job returns no row, or it returns a row whose
\* embedding column holds value
NoAnswer == [kind |-> "none", value |-> NoVector]

GenAnswers ==
    {[kind |-> "raise", value |-> NoVector], [kind |-> "norows", value |-> NoVector]}
    \cup {[kind |-> "row", value |-> x] :
            x \in {EmbA, EmbB, EmbShort, EmbLong, EmbEmpty, EmbNonNumeric, NoVector}}

GenResult(outcome, result, nq) == [outcome |-> outcome, result |-> result, nq |-> nq]

\* the same call with the query sent a second time when it raises
GenerateRetriesOnce(text, ans) ==
    IF IsBlank(text) THEN GenResult("ValueError", NoVector, 0)
    ELSE IF ans.kind = "raise" THEN GenResult("Exception", NoVector, 2)
    ELSE IF ans.kind = "norows" THEN GenResult("Exception", NoVector, 1)
    ELSE IF ~EmbeddingShapeOK(ans.value) THEN GenResult("Exception", NoVector, 1)
    ELSE GenResult("ok", ans.value, 1)

\* generate_embedding(text) against a backend that answers ans:
\* the outcome, the vector returned and the number of queries sent
GenerateEmbeddingCall(text, ans) ==
    IF IsBlank(text) THEN GenResult("ValueError", NoVector, 0)
    ELSE IF ans.kind = "raise" THEN GenResult("Exception", NoVector, 1)
    ELSE IF ans.kind = "norows" THEN GenResult("Exception", NoVector, 1)
    ELSE IF ~EmbeddingShapeOK(ans.value) THEN GenResult("Exception", NoVector, 1)
    ELSE GenResult("ok", ans.value, 1)

\* s.replace(c, r), c one character
RECURSIVE Replace(_, _, _)
Replace(s, c, r) ==
    IF s = <<>> THEN <<>>
    ELSE (IF Head(s) = c THEN r ELSE <<Head(s)>>) \o Replace(Tail(s), c, r)

\* text.replace("'", "\\'").replace("\n", "\\n").replace("\r", "\\r")
EscapeText(s) ==
    Replace(Replace(Replace(s, "'", <<"\\", "'">>), "\n", <<"\\", "n">>),
            "\r", <<"\\", "r">>)

\* what follows '{escaped_text} in the query: the closing quote the code
\* writes and the rest of the line (the query holds no other quote)
QueryTail == <<"'", " ", "A", "S", " ", "c", "o", "n", "t", "e", "n", "t", ")">>

\* the backend's reading of a quoted string literal: the character that
\* follows a backslash, and the character the two stand for (no other
\* character may follow a backslash; the other quotes, the question mark and
\* the escapes with digits are left out)
Unescape ==
    [c \in {"'", "\\", "n", "r", "t", "a", "b", "f", "v"} |->
        CASE c = "n" -> "\n"
          [] c = "r" -> "\r"
          [] c = "t" -> "\t"
          [] c = "f" -> "\f"
          [] c = "a" -> "<BEL>"
          [] c = "b" -> "<BS>"
          [] c = "v" -> "<VT>"
          [] OTHER -> c]

LiteralRead(status, end, text) == [status |-> status, end |-> end, text |-> text]

\* The literal is read from position i of q, just after the opening quote:
\* it is closed by the first quote that no backslash precedes; a line break
\* inside it, a backslash before a character that is no escape, or the end of
\* the query before the closing quote is a syntax error.
RECURSIVE ReadLiteral(_, _, _)
ReadLiteral(q, i, acc) ==
    IF i > Len(q) THEN LiteralRead("error", i, acc)
    ELSE IF q[i] = "'" THEN LiteralRead("closed", i, acc)
    ELSE IF q[i] = "\\"
    THEN IF i < Len(q) /\ q[i + 1] \in DOMAIN Unescape
         THEN ReadLiteral(q, i + 2, Append(acc, Unescape[q[i + 1]]))
         ELSE LiteralRead("error", i, acc)
    ELSE IF q[i] \in {"\n", "\r"} THEN LiteralRead("error", i, acc)
    ELSE ReadLiteral(q, i + 1, Append(acc, q[i]))

\* the part of the escaped text the backend reads after the literal, when a
\* quote of the text closes the literal before the quote the code writes
AfterLiteral(sent) ==
    LET r == ReadLiteral(sent \o QueryTail, 1, <<>>) IN
    IF r.status = "closed" /\ r.end <= Len(sent)
    THEN SubSeq(sent, r.end + 1, Len(sent))
    ELSE <<>>

\* A run of text with no quote, backslash or line break in it, carried as one
\* element of the text. Read after the literal it closes the two brackets of
\* ML.GENERATE_EMBEDDING, which needs no third argument, and the statement;
\* it holds a DELETE statement; and it opens a SELECT that the rest of the
\* query, past the comment that hides the rest of the line, completes with
\* STRUCT(TRUE AS flatten_json_output) and a bracket.
DeleteScript ==
    " AS content)); DELETE FROM embeddings.ticket_embeddings WHERE TRUE; SELECT TO_JSON_STRING( --"

\* a text whose backslash and quote end the literal, DeleteScript after them
InjectionText == PyStr(<<"\\", "'", DeleteScript>>)

\* The embeddings table after the backend ran the query generate_embedding
\* sends for text: the query is a script of several statements when the text
\* leaves the literal, and the script's statements run in turn; the texts
\* over Chars that leave the literal make a query that does not parse.
GenerateEffect(text, T) ==
    IF AfterLiteral(EscapeText(text.s)) = <<DeleteScript>> THEN <<>> ELSE T

\* generate_embedding(text), one whole call; sent is the escaped text the
\* query carries between the quotes. (The backend's answer is left open
\* whatever the query reads like.)
GenerateEmbedding(text, ans) ==
    /\ LET r == GenerateEmbeddingCall(text, ans) IN
       /\ last' = [op |-> "generate_embedding", text |-> text,
                   sent |-> IF r.nq = 0 THEN <<>> ELSE EscapeText(text.s),
                   ans |-> IF r.nq = 0 THEN NoAnswer ELSE ans,
                   outcome |-> r.outcome, result |-> r.result, nq |-> r.nq]
       /\ embeddings' = IF r.nq = 0 THEN embeddings ELSE GenerateEffect(text, embeddings)
    /\ UNCHANGED <<now, callers>>

\* ------------------------------------- calls of functions without state
\* a call about to be made: the function, its argument and the answer the
\* backend will give
Call(fn, arg, ans) == [op |-> "call", fn |-> fn, arg |-> arg, ans |-> ans]

Calling(fn) == last.op = "call" /\ last.fn = fn

\* ------------------------------------------------ prepare_ticket_text
\* a ticket is a dict: a function of some of these keys
FieldKeys ==
    {"subject", "ticket_subject", "description", "ticket_description",
     "resolution", "ticket_resolution"}

DigitChars == <<"0", "1", "2", "3", "4", "5", "6", "7", "8", "9">>

RECURSIVE StrOfInt(_)
StrOfInt(n) ==
    IF n < 10 THEN <<DigitChars[n + 1]>>
    ELSE StrOfInt(n \div 10) \o <<DigitChars[(n % 10) + 1]>>

\* str(value), of a str, an int that is not negative, or None
StrOf(value) ==
    IF value.ty = "str" THEN value.s
    ELSE IF value.ty = "int" THEN StrOfInt(value.v)
    ELSE <<"N", "o", "n", "e">>

\* _get_field_value without the second name
GetFieldValueFirstNameOnly(ticket, field_names) ==
    IF field_names = <<>> \/ Head(field_names) \notin DOMAIN ticket THEN NoText
    ELSE LET value == ticket[Head(field_names)] IN
         IF value.ty = "NoneType" THEN NoText
         ELSE LET str_value == Strip(StrOf(value)) IN
              IF str_value # <<>> THEN PyStr(str_value) ELSE NoText

\* _get_field_value without the .strip()
GetFieldValueNoStrip(ticket, field_names) ==
    LET present == {k \in DOMAIN field_names : field_names[k] \in DOMAIN ticket} IN
    IF present = {} THEN NoText
    ELSE LET value == ticket[field_names[CHOOSE k \in present : \A j \in present : k <= j]] IN
         IF value.ty = "NoneType" THEN NoText
         ELSE IF StrOf(value) # <<>> THEN PyStr(StrOf(value)) ELSE NoText

\* _get_field_value(ticket, field_names): the loop returns at the first name
\* that is a key of the dict, whatever its value
RECURSIVE GetFieldValue(_, _)
GetFieldValue(ticket, field_names) ==
    IF field_names = <<>> THEN NoText
    ELSE IF Head(field_names) \in DOMAIN ticket
    THEN LET value == ticket[Head(field_names)] IN
         IF value.ty = "NoneType" THEN NoText
         ELSE LET str_value == Strip(StrOf(value)) IN
              IF str_value # <<>> THEN PyStr(str_value) ELSE NoText
    ELSE GetFieldValue(ticket, Tail(field_names))

\* sep.join(parts)
RECURSIVE Join(_, _)
Join(parts, sep) ==
    IF parts = <<>> THEN <<>>
    ELSE IF Len(parts) = 1 THEN parts[1]
    ELSE parts[1] \o sep \o Join(Tail(parts), sep)

SubjectLabel == <<"S", "u", "b", "j", "e", "c", "t", ":", " ">>
IssueLabel == <<"I", "s", "s", "u", "e", ":", " ">>
ResolutionLabel == <<"R", "e", "s", "o", "l", "u", "t", "i", "o", "n", ":", " ">>

\* prepare_ticket_text(ticket)
PrepareTicketText(ticket) ==
    LET subject == GetFieldValue(ticket, <<"subject", "ticket_subject">>)
        description == GetFieldValue(ticket, <<"description", "ticket_description">>)
        resolution == GetFieldValue(ticket, <<"resolution", "ticket_resolution">>)
        text_parts ==
            (IF subject.ty # "NoneType" THEN <<SubjectLabel \o subject.s>> ELSE <<>>)
            \o (IF description.ty # "NoneType" THEN <<IssueLabel \o description.s>> ELSE <<>>)
            \o (IF resolution.ty # "NoneType" THEN <<ResolutionLabel \o resolution.s>> ELSE <<>>)
    IN PyStr(IF text_parts # <<>> THEN Join(text_parts, <<"\n">>) ELSE <<>>)

\* generate_ticket_embedding where the text is not looked at before it is
\* embedded, and every failure is raised as Exception
GenerateTicketEmbeddingWraps(ticket, ans) ==
    LET g == GenerateEmbeddingCall(PrepareTicketText(ticket), ans) IN
    IF g.outcome = "ok" THEN g ELSE GenResult("Exception", NoVector, g.nq + 1)

\* generate_ticket_embedding(ticket) against a backend that answers ans
GenerateTicketEmbeddingCall(ticket, ans) ==
    LET ticket_text == PrepareTicketText(ticket) IN
    IF ticket_text.s = <<>> THEN GenResult("ValueError", NoVector, 0)
    ELSE GenerateEmbeddingCall(ticket_text, ans)

\* the values of a ticket's fields: None, blank, a word with blanks around
\* it, a text of three lines (the second one empty), a number
FieldValues ==
    {NoText, PyStr(<<" ">>), PyStr(<<" ", "a", " ">>), PyStr(<<"a", "\n", "\n", "b">>),
     PyInt(5)}

TicketDicts == UNION {[K -> FieldValues] : K \in SUBSET FieldKeys}

\* prepare_ticket_text(ticket), one whole call
PrepareTicket ==
    /\ Calling("prepare_ticket_text")
    /\ last' = [op |-> "prepare_ticket_text", ticket |-> last.arg,
                outcome |-> "ok", result |-> PrepareTicketText(last.arg)]
    /\ UNCHANGED <<embeddings, now, callers>>

\* generate_ticket_embedding(ticket), one whole call
GenerateTicketEmbedding ==
    /\ Calling("generate_ticket_embedding")
    /\ LET r == GenerateTicketEmbeddingCall(last.arg, last.ans) IN
       /\ last' = [op |-> "generate_ticket_embedding", ticket |-> last.arg,
                   ans |-> IF r.nq = 0 THEN NoAnswer ELSE last.ans,
                   outcome |-> r.outcome, result |-> r.result, nq |-> r.nq]
       /\ embeddings' = IF r.nq = 0 THEN embeddings
                        ELSE GenerateEffect(PrepareTicketText(last.arg), embeddings)
    /\ UNCHANGED <<now, callers>>

\* ------------------------- batch_embed_tickets (bigquery_service.py)
\* the names bound in the module bigquery_service: its imports, its class
\* and its instance
BigQueryModuleNames ==
    {"bigquery", "service_account", "settings", "List", "Dict", "Any", "Optional",
     "BigQueryService", "bigquery_service"}

\* the evaluation of a global name in a function of that module
NameLookup(name) == IF name \in BigQueryModuleNames THEN "ok" ELSE "NameError"

\* store_embedding(ticket_id=..., vector=..., ticket_resolution=...)
BatchKeywords == {"ticket_id", "vector", "ticket_resolution"}

BatchResult(T, ts, outcome, count, nq) ==
    [embeddings |-> T, now |-> ts, outcome |-> outcome, count |-> count, nq |-> nq]

\* not description or not description.strip()
\* (ticket.get("ticket_description", "") is None for a NULL column)
Eligible(ticket) ==
    /\ ticket.ticket_status = "resolved"
    /\ ~IsBlank(ticket.ticket_description)

\* The loop over the fetched tickets, from table T at time ts with count
\* tickets processed and nq queries sent; any exception leaves the loop and
\* is raised again as Exception("Failed to batch embed tickets: ...").
RECURSIVE BatchLoop(_, _, _, _, _, _)
BatchLoop(tickets, ans, T, ts, count, nq) ==
    IF tickets = <<>> THEN BatchResult(T, ts, "ok", count, nq)
    ELSE LET ticket == Head(tickets) IN
         IF ~Eligible(ticket) THEN BatchLoop(Tail(tickets), ans, T, ts, count, nq)
         ELSE IF NameLookup("embedding_service") # "ok"
         THEN BatchResult(T, ts, "Exception", count, nq)
         ELSE LET g == GenerateEmbeddingCall(ticket.ticket_description, ans)
                  T1 == GenerateEffect(ticket.ticket_description, T)
              IN
              IF g.outcome # "ok" THEN BatchResult(T1, ts, "Exception", count, nq + g.nq)
              ELSE IF BindCall(BatchKeywords, StoreParams, StoreRequired) # "ok"
              THEN BatchResult(T1, ts, "Exception", count, nq + g.nq)
              ELSE LET a == StoreArgs(PyInt(ticket.ticket_id), g.result,
                                      ticket.ticket_resolution, TRUE)
                       T2 == StoreStatement(T1, a, ts)
                   IN IF StoreValidation(a.ticket_id, a.vector) # "ok"
                      THEN BatchResult(T1, ts, "Exception", count, nq + g.nq)
                      ELSE BatchLoop(Tail(tickets), ans, T2,
                                     IF Len(T2) > Len(T1) THEN ts + 1 ELSE ts,
                                     count + 1, nq + g.nq + 1)

\* batch_embed_tickets(limit) as the caller sees it: tickets is what
\* get_tickets(limit) returns, fetchOk whether that query runs
BatchEmbedTicketsCall(tickets, fetchOk, ans, T, ts) ==
    IF ~fetchOk THEN BatchResult(T, ts, "Exception", 0, 1)
    ELSE BatchLoop(tickets, ans, T, ts, 0, 1)

\* the rows get_tickets returns
BatchTicket(id, status, description) ==
    [ticket_id |-> id, ticket_status |-> status, ticket_description |-> description,
     ticket_resolution |-> PyStr(<<"r">>)]

BatchTickets ==
    {BatchTicket(id, status, description) :
        id \in 1..MaxTicketId, status \in {"resolved", "open"},
        description \in {PyStr(<<"a">>), PyStr(<<" ">>), NoText}}

\* batch_embed_tickets(limit), one whole call
BatchEmbedTickets ==
    /\ Calling("batch_embed_tickets")
    /\ LET r == BatchEmbedTicketsCall(last.arg.tickets, last.arg.fetchOk, last.ans,
                                      embeddings, now) IN
       /\ Len(r.embeddings) <= MaxRows
       /\ embeddings' = r.embeddings
       /\ now' = r.now
       /\ last' = [op |-> "batch_embed_tickets", tickets |-> last.arg.tickets,
                   fetchOk |-> last.arg.fetchOk, ans |-> last.ans,
                   outcome |-> r.outcome, count |-> r.count, nq |-> r.nq]
    /\ UNCHANGED callers

\* -------------------------------------------- search_similar_tickets
\* the table kaggle_tickets_clean (read only); the ticket of the highest id
\* callers store under has no row in it, so its embedding record joins nothing
OrphanId == MaxTicketId

TicketRow(id) ==
    [ticket_id |-> id, ticket_subject |-> <<"s">>,
     ticket_description |-> <<"d">>, ticket_resolution |-> <<"r">>]

Tickets == {TicketRow(id) : id \in (1..(MaxTicketId + MaxRankRows)) \ {OrphanId}}

Min(a, b) == IF a <= b THEN a ELSE b

\* the largest r in lo..hi with r * r <= n
RECURSIVE ISqrtIn(_, _, _)
ISqrtIn(n, lo, hi) ==
    IF lo >= hi THEN lo
    ELSE LET mid == (lo + hi + 1) \div 2 IN
         IF mid * mid <= n THEN ISqrtIn(n, mid, hi) ELSE ISqrtIn(n, lo, mid - 1)

\* the integer square root (46340 * 46340 is the largest square of 32 bits)
ISqrt(n) == ISqrtIn(n, 0, Min(n, 46340))

Sq(x) == x * x

Value(arr, i) == IF i \in DOMAIN arr.at THEN arr.at[i] ELSE arr.fill

RECURSIVE SumSq(_, _, _)
SumSq(a, b, idx) ==
    IF idx = {} THEN 0
    ELSE LET i == CHOOSE j \in idx : TRUE IN
         Sq(Value(a, i) - Value(b, i)) + SumSq(a, b, idx \ {i})

\* ML.DISTANCE(a, b), EUCLIDEAN by default, squared; values in tenths, so
\* the result is in hundredths
DistanceSq(a, b) ==
    LET idx == DOMAIN a.at \cup DOMAIN b.at IN
    SumSq(a, b, idx) + (a.len - Cardinality(idx)) * Sq(a.fill - b.fill)

\* 1 - (distance / 2), in thousandths
Similarity(a, b) == 1000 - ISqrt(2500 * DistanceSq(a, b))

\* a WHERE clause that lets every row pass
ThresholdOff(sim) == TRUE

\* WHERE 1 - (distance / 2) >= 0.5
AboveThreshold(sim) == sim >= 500

\* the rows of e JOIN t ON e.ticket_id = t.ticket_id that pass the WHERE
\* clause, each with its similarity_score
Candidates(T, q) ==
    {[row |-> p[1], ticket |-> p[2],
      similarity_score |-> Similarity(T[p[1]].embedding_vector, q)] :
        p \in {x \in (DOMAIN T) \X Tickets : x[2].ticket_id = T[x[1]].ticket_id}}

Passing(T, q) == {c \in Candidates(T, q) : AboveThreshold(c.similarity_score)}

\* LIMIT @limit without the ORDER BY: any rows, in any order
RankedUnordered(cands, limit) ==
    LET n == Min(limit, Cardinality(cands)) IN
    {s \in [1..n -> cands] : \A j, k \in 1..n : j < k => s[j] # s[k]}

\* ORDER BY similarity_score DESC LIMIT @limit: every order of the passing
\* rows the backend may return (rows of equal score come in any order)
Ranked(cands, limit) ==
    LET n == Min(limit, Cardinality(cands)) IN
    {s \in [1..n -> cands] :
        /\ \A j, k \in 1..n : j < k =>
              (s[j] # s[k] /\ s[j].similarity_score >= s[k].similarity_score)
        /\ \A c \in cands \ {s[k] : k \in 1..n} :
              \A k \in 1..n : s[k].similarity_score >= c.similarity_score}

\* the dict search_similar_tickets builds of a row
ResultOf(c) ==
    [ticket_id |-> c.ticket.ticket_id,
     ticket_subject |-> c.ticket.ticket_subject,
     ticket_description |-> c.ticket.ticket_description,
     ticket_resolution |-> c.ticket.ticket_resolution,
     similarity_score |-> c.similarity_score]

QueryResults(T, q, limit) ==
    {[k \in DOMAIN s |-> ResultOf(s[k])] : s \in Ranked(Passing(T, q), limit)}

\* ML.DISTANCE fails on arrays of different lengths
DistanceDefined(T, q) == \A i \in DOMAIN T : T[i].embedding_vector.len = q.len

\* the guard written limit < 0
LimitRejectedMissesZero(limit) == limit.ty = "NoneType" \/ limit.v < 0

\* if limit is None or limit <= 0
LimitRejected(limit) == limit.ty = "NoneType" \/ limit.v <= 0

BlankQueries == {NoText, PyStr(<<>>), PyStr(<<" ">>), PyStr(<<"\n", " ">>)}

WordQueries == {PyStr(<<"a">>), PyStr(<<" ", "a">>)}

NoLimits == {PyNone, PyInt(-1), PyInt(0)}

RealLimits == {PyInt(n) : n \in 1..MaxLimit}

SearchAnswers ==
    {a \in GenAnswers : a.kind = "raise" \/ a.value \in {EmbA, EmbB, EmbShort, EmbNonNumeric}}

\* a backend in working order: it answers the embedding query with EmbA
AnswerA == [kind |-> "row", value |-> EmbA]

SearchRecord(query, limit, ans, sql, result, nq, ngen) ==
    [op |-> "search_similar_tickets", query |-> query, limit |-> limit, ans |-> ans,
     sql |-> sql, outcome |-> "ok", result |-> result, nq |-> nq, ngen |-> ngen]

\* an except clause that logs and raises the exception again
SearchExceptRaises(rec) == [rec EXCEPT !.outcome = "Exception", !.result = <<>>]

\* except Exception as e: logger.error(...); return []
SearchExcept(rec) == [rec EXCEPT !.outcome = "ok", !.result = <<>>]

\* The query reads `<project>.embeddings.ticket_embeddings`; store_embedding
\* writes `<project>.<BIGQUERY_DATASET_ID>.ticket_embeddings`. They are taken
\* here as one table, as when BIGQUERY_DATASET_ID is "embeddings".
\* search_similar_tickets(query, limit), one whole call; ans is the backend's
\* answer to the embedding query, sqlOk whether the search query runs
SearchSimilarTickets(query, limit, ans, sqlOk) ==
    /\ IF IsBlank(query) \/ LimitRejected(limit)
       THEN /\ last' = SearchRecord(query, limit, NoAnswer, "none", <<>>, 0, 0)
            /\ embeddings' = embeddings
       ELSE LET g == GenerateEmbeddingCall(query, ans)
                T == GenerateEffect(query, embeddings)
            IN
            /\ embeddings' = T
            /\ IF g.outcome # "ok"
               THEN last' = SearchExcept(
                               SearchRecord(query, limit, ans, "none", <<>>, g.nq, 1))
               ELSE IF ~sqlOk \/ ~AllNumbers(g.result)
                       \/ ~DistanceDefined(T, Float64Array(g.result))
               THEN last' = SearchExcept(
                               SearchRecord(query, limit, ans, "failed", <<>>, g.nq + 1, 1))
               ELSE \E res \in QueryResults(T, Float64Array(g.result), limit.v) :
                       last' = SearchRecord(query, limit, ans, "ok", res, g.nq + 1, 1)
    /\ UNCHANGED <<now, callers>>

\* the tickets of an end-to-end run (compose, embed, store, search by the
\* description): the description is a query of words
PipelineTickets == {[k \in {"description"} |-> q] : q \in WordQueries}

\* the texts such a run has embedded: the composed texts and the descriptions
PipelineTexts == {PrepareTicketText(t) : t \in PipelineTickets} \cup WordQueries

\* the deterministic embedding backends: one vector for each text
Backends == [PipelineTexts -> {EmbA, EmbB}]

\* tables for the ranking: a vector at distance x / 10 of EmbA (its second
\* value is x tenths) has similarity 1 - x / 20 to it
Near(x) == PyList(EMBED_DIM, UnitAt(1) @@ [i \in {2} |-> PyFloat(x)], PyFloat(0))

\* similarities 0.9, 0.7, 0.4, 0.3 to EmbA
RankOffsets == {2, 6, 12, 14}

\* the tables a run of upserts leaves: up to MaxRankRows tickets that have a
\* row in kaggle_tickets_clean, each with one vector near EmbA
RankTables ==
    UNION {{[j \in 1..k |-> Row(MaxTicketId + j, Float64Array(Near(f[j])), TxtA.s, j)] :
              f \in [1..k -> RankOffsets]} : k \in 0..MaxRankRows}

RankLimits == {PyInt(n) : n \in 1..(MaxRankRows + 1)}

\* ------------------------------------------------ format_rag_context
\* t.get(key)
DictGet(t, key) == IF key \in DOMAIN t THEN t[key] ELSE NoText

\* value or "", as the f-string prints it
OrEmpty(value) ==
    IF value.ty = "NoneType" \/ (value.ty = "str" /\ value.s = <<>>) THEN <<>>
    ELSE StrOf(value)

ContextHeader == <<"S", "i", "m", "i", "l", "a", "r", " ", "C", "a", "s", "e", "s", ":">>
CaseLabel == <<"C", "a", "s", "e", " ", "#">>
ContextIssueLabel == <<"I", "s", "s", "u", "e", ":", " ">>
ContextResolutionLabel == <<"R", "e", "s", "o", "l", "u", "t", "i", "o", "n", ":", " ">>
Separator == <<"-", "-", "-">>

\* the four lines the loop appends for each ticket
RECURSIVE ContextLines(_)
ContextLines(tickets) ==
    IF tickets = <<>> THEN <<>>
    ELSE LET t == Head(tickets)
             subject == OrEmpty(DictGet(t, "ticket_subject"))
             description == OrEmpty(DictGet(t, "ticket_description"))
             resolution == OrEmpty(DictGet(t, "ticket_resolution"))
         IN <<CaseLabel \o StrOf(DictGet(t, "ticket_id")) \o <<":", " ">> \o subject,
              ContextIssueLabel \o description,
              ContextResolutionLabel \o resolution,
              Separator>> \o ContextLines(Tail(tickets))

\* out.endswith(suffix)
EndsWith(out, suffix) ==
    /\ Len(out) >= Len(suffix)
    /\ SubSeq(out, Len(out) - Len(suffix) + 1, Len(out)) = suffix

\* format_rag_context without the removal of the last separator
FormatKeepsSeparator(tickets) ==
    IF tickets = <<>> THEN <<>>
    ELSE Join(<<ContextHeader>> \o ContextLines(tickets), <<"\n">>)

\* format_rag_context(tickets)
FormatRagContext(tickets) ==
    IF tickets = <<>> THEN <<>>
    ELSE LET lines == <<ContextHeader>> \o ContextLines(tickets)
             out == Join(lines, <<"\n">>)
         IN IF EndsWith(out, <<"\n">> \o Separator)
            THEN SubSeq(out, 1, Len(out) - 4)
            ELSE out

\* the dicts handed to format_rag_context: a ticket_id and the three texts,
\* under the keys search_similar_tickets writes or under the bare names
ContextKeys ==
    {<<"ticket_subject", "ticket_description", "ticket_resolution">>,
     <<"subject", "description", "resolution">>}

ContextDict(id, keys, subject, description, resolution) ==
    [k \in {"ticket_id", keys[1], keys[2], keys[3]} |->
        IF k = "ticket_id" THEN id
        ELSE IF k = keys[1] THEN subject
        ELSE IF k = keys[2] THEN description
        ELSE resolution]

ContextDicts ==
    {ContextDict(id, keys, subject, description, resolution) :
        id \in {PyInt(1), PyInt(12)}, keys \in ContextKeys,
        subject \in {PyStr(<<"S">>), NoText},
        description \in {PyStr(<<"D">>), PyStr(<<>>)},
        resolution \in {PyStr(<<"R">>), NoText}}

\* format_rag_context(tickets), one whole call
FormatContext ==
    /\ Calling("format_rag_context")
    /\ last' = [op |-> "format_rag_context", tickets |-> last.arg,
                outcome |-> "ok", result |-> PyStr(FormatRagContext(last.arg))]
    /\ UNCHANGED <<embeddings, now, callers>>

\* ------------------------------- store_embedding, concurrent callers
\* Each request handler runs store_embedding on its own; what they share is
\* the table. A call is: validate and send the statement (StoreCall), then
\* the backend runs the job as one DML statement (BackendCommit) or the job
\* fails (BackendFail), and job.result() returns or raises in the caller.
Callers == 1..NumCallers

NoArgs == StoreArgs(PyNone, NoVector, NoText, FALSE)

IdleCaller == [pc |-> "idle", args |-> NoArgs, outcome |-> "none"]

UpsertInputs == {a \in ValidStoreInputs : a.upsert}

ConcInputs == UpsertInputs \cup {StoreArgs(PyInt(1), EmbShort, TxtA, TRUE)}

StoreCall(c, a) ==
    /\ callers[c].pc = "idle"
    /\ LET v == StoreValidation(a.ticket_id, a.vector) IN
       callers' = [callers EXCEPT ![c] =
                     IF v # "ok"
                     THEN [pc |-> "done", args |-> a, outcome |-> v]
                     ELSE [pc |-> "inflight", args |-> a, outcome |-> "none"]]
    /\ UNCHANGED <<embeddings, now, last>>

BackendCommit(c) ==
    /\ callers[c].pc = "inflight"
    /\ Fits(embeddings, callers[c].args)
    /\ embeddings' = StoreStatement(embeddings, callers[c].args, now)
    /\ now' = IF Len(embeddings') > Len(embeddings) THEN now + 1 ELSE now
    /\ callers' = [callers EXCEPT ![c].pc = "done", ![c].outcome = StoreOutcome(TRUE)]
    /\ UNCHANGED last

BackendFail(c) ==
    /\ callers[c].pc = "inflight"
    /\ callers' = [callers EXCEPT ![c].pc = "done", ![c].outcome = StoreOutcome(FALSE)]
    /\ UNCHANGED <<embeddings, now, last>>

\* ------------------------------------------------------ specifications
NoCall == [op |-> "none", outcome |-> "none", backend |-> "none", nq |-> 0]

Init ==
    /\ embeddings = <<>>
    /\ now = 1
    /\ last = NoCall
    /\ callers = [c \in Callers |-> IdleCaller]

StoreNext == \E a \in StoreInputs, backendOk \in BOOLEAN : StoreEmbedding(a, backendOk)

ConcNext ==
    \E c \in Callers :
        \/ \E a \in ConcInputs : StoreCall(c, a)
        \/ BackendCommit(c)
        \/ BackendFail(c)

GenNext == \E text \in Texts, ans \in GenAnswers : GenerateEmbedding(text, ans)

\* the calls of search_similar_tickets: a blank query with any limit, a query
\* of words with no usable limit (both against a backend in working order),
\* and a query of words with a limit against a backend that answers anything
SearchNext ==
    \/ \E query \in BlankQueries, limit \in NoLimits \cup RealLimits :
          SearchSimilarTickets(query, limit, AnswerA, TRUE)
    \/ \E query \in WordQueries, limit \in NoLimits :
          SearchSimilarTickets(query, limit, AnswerA, TRUE)
    \/ \E query \in WordQueries, limit \in RealLimits, ans \in SearchAnswers,
          sqlOk \in BOOLEAN :
          SearchSimilarTickets(query, limit, ans, sqlOk)

\* the calls that fill the table: valid store_embedding calls that succeed
\* (the stored text plays no part in the search)
FillNext == \E a \in {x \in ValidStoreInputs : x.text # NoText} : StoreEmbedding(a, TRUE)

\* the tickets handed to generate_ticket_embedding: dicts of the subject
\* under its two names and of the description
EmbedTickets == {t \in TicketDicts : DOMAIN t \subseteq {"subject", "ticket_subject", "description"}}

ComposeCalls ==
    {Call("prepare_ticket_text", t, NoAnswer) : t \in TicketDicts}
    \cup {Call("generate_ticket_embedding", t, ans) : t \in EmbedTickets, ans \in GenAnswers}

ComposeNext == PrepareTicket \/ GenerateTicketEmbedding

Next == StoreNext \/ GenNext \/ SearchNext

\* the operations that use the backend, called in any order by one caller
\* at a time
Spec == Init /\ [][Next]_vars

\* the table as a run of upserts leaves it: empty, or one row of ticket 1
InitConc ==
    /\ embeddings \in {<<>>, <<Row(1, Float64Array(EmbB), TxtB.s, 1)>>}
    /\ now = Len(embeddings) + 1
    /\ last = NoCall
    /\ callers = [c \in Callers |-> IdleCaller]

\* store_embedding called by one caller at a time
SpecStore == Init /\ [][StoreNext]_vars

EndpointNext ==
    \E a \in EndpointInputs, backendOk \in BOOLEAN : StoreTicketEmbedding(a, backendOk)

\* requests to the store route, among direct calls of store_embedding
SpecEndpoint == Init /\ [][StoreNext \/ EndpointNext]_vars

\* store_embedding(upsert=True) called by concurrent request handlers
SpecConc == InitConc /\ [][ConcNext]_vars

\* generate_embedding called on any text, the backend answering anything
SpecGen == Init /\ [][GenNext]_vars

\* search_similar_tickets over every table store_embedding can leave
SpecSearch == Init /\ [][FillNext \/ SearchNext]_vars

\* the calls of generate_embedding among the reads: a text of words, no
\* text, and the text that leaves the literal
ReadTexts == {PyStr(<<"a">>), NoText, InjectionText}

ReadGenNext ==
    \E text \in ReadTexts, ans \in {AnswerA, [kind |-> "raise", value |-> NoVector]} :
        GenerateEmbedding(text, ans)

\* generate_embedding and search_similar_tickets called in any order on the
\* empty table or one that holds a row
SpecRead == InitConc /\ [][ReadGenNext \/ SearchNext]_vars

InitCompose ==
    /\ embeddings = <<>>
    /\ now = 1
    /\ last \in ComposeCalls
    /\ callers = [c \in Callers |-> IdleCaller]

\* prepare_ticket_text and generate_ticket_embedding, each call on its own
\* (they keep no state), on any ticket dict
SpecCompose == InitCompose /\ [][ComposeNext]_vars

\* lists of up to MaxLimit results (a search returns no more)
FormatCalls == {Call("format_rag_context", ts, NoAnswer) : ts \in SeqsUpTo(ContextDicts, MaxLimit)}

InitFormat ==
    /\ embeddings = <<>>
    /\ now = 1
    /\ last \in FormatCalls
    /\ callers = [c \in Callers |-> IdleCaller]

\* format_rag_context, each call on its own (it keeps no state)
SpecFormat == InitFormat /\ [][FormatContext]_vars

\* the calls of batch_embed_tickets(limit): up to MaxLimit tickets fetched
BatchCalls ==
    {Call("batch_embed_tickets", [tickets |-> ts, fetchOk |-> ok], ans) :
        ts \in SeqsUpTo(BatchTickets, MaxLimit), ok \in BOOLEAN,
        ans \in {AnswerA, [kind |-> "raise", value |-> NoVector]}}

InitBatch ==
    /\ embeddings \in {<<>>, <<Row(1, Float64Array(EmbB), TxtB.s, 1)>>}
    /\ now = Len(embeddings) + 1
    /\ last \in BatchCalls
    /\ callers = [c \in Callers |-> IdleCaller]

\* batch_embed_tickets, one call, on the empty table or one that holds a row
SpecBatch == InitBatch /\ [][BatchEmbedTickets]_vars

InitRank ==
    /\ embeddings \in RankTables
    /\ now = Len(embeddings) + 1
    /\ last = NoCall
    /\ callers = [c \in Callers |-> IdleCaller]

RankNext == \E limit \in RankLimits : SearchSimilarTickets(TxtA, limit, AnswerA, TRUE)

\* search_similar_tickets with a working backend over tables of several
\* tickets, nearer to and further from the query vector than the threshold
SpecRank == InitRank /\ [][RankNext]_vars

\* ================================================================ claims
IsStore(l) == l.op = "store_embedding"
IsGenerate(l) == l.op = "generate_embedding"

Stored(l) == IsStore(l) /\ l.outcome = "success"

\* the rows of ticket id hold exactly the vector and the text of call a
HoldsPayload(T, id, a) ==
    \A i \in RowsOf(T, id) :
        /\ T[i].embedding_vector = Float64Array(a.vector)
        /\ T[i].text_content = TextOrEmpty(a.text)

\* C1: two successive store_embedding(upsert=True) calls for one ticket_id
\* with different vectors leave exactly one record of that ticket_id, and it
\* holds the vector and the text of the second call (from any store state).
C1_UpsertTwiceLeavesOneRecord ==
    [][(/\ Stored(last) /\ last.args.upsert
        /\ Stored(last') /\ last'.args.upsert
        /\ last'.args.ticket_id = last.args.ticket_id
        /\ last'.args.vector # last.args.vector)
       => /\ Cardinality(RowsOf(embeddings', last'.args.ticket_id.v)) = 1
          /\ HoldsPayload(embeddings', last'.args.ticket_id.v, last'.args)]_vars

\* C2: after any sequence of store_embedding calls (upsert or plain insert)
\* the table holds at most one record per ticket_id.
C2_AtMostOneRecordPerTicket ==
    \A id \in 1..MaxTicketId : Cardinality(RowsOf(embeddings, id)) <= 1

\* C3: when callers run store_embedding(upsert=True) concurrently for one
\* ticket_id, the table ends with exactly one record of that ticket_id, and
\* its (vector, text_content) is the whole pair one of the callers wrote.
Committed(id) ==
    {c \in Callers : /\ callers[c].pc = "done"
                     /\ callers[c].outcome = "success"
                     /\ callers[c].args.ticket_id.v = id}

NotAnInteger(x) == x.ty \notin {"int", "bool"}

NoNumber(x) == x.ty \notin {"int", "bool", "float"}

NotAVectorOf768Numbers(v) ==
    \/ v.ty # "list"
    \/ v.len # 768
    \/ \E i \in DOMAIN v.at : NoNumber(v.at[i])
    \/ (NoNumber(v.fill) /\ \E i \in 1..v.len : i \notin DOMAIN v.at)

C4_InvalidStoreRejectedBeforeBackend ==
    [][(/\ IsStore(last')
        /\ NotAnInteger(last'.args.ticket_id) \/ NotAVectorOf768Numbers(last'.args.vector))
       => /\ last'.outcome = "ValueError"
          /\ last'.nq = 0
          /\ embeddings' = embeddings]_vars

C4_Witness ==
    /\ IsStore(last)
    /\ last.args.vector = EmbShort
    /\ last.outcome = "ValueError"
    /\ embeddings # <<>>

\* C5: a backend failure during store_embedding reaches the caller as an
\* error, never as success, and the table is as it was before the call.
C5_StoreFailureRaisedAndAtomic ==
    [][(IsStore(last') /\ last'.backend = "failed")
       => /\ last'.outcome = "BackendError"
          /\ embeddings' = embeddings]_vars

C5_Witness ==
    /\ IsStore(last)
    /\ last.backend = "failed"
    /\ last.args.upsert
    /\ RowsOf(embeddings, last.args.ticket_id.v) # {}
    /\ ~HoldsPayload(embeddings, last.args.ticket_id.v, last.args)

\* C6: generate_embedding raises ValueError for every text that is None,
\* empty or made of whitespace only, and sends no query then.
NothingButWhitespace(text) ==
    text.ty = "NoneType" \/ \A i \in DOMAIN text.s : text.s[i] \in Whitespace

C6_BlankTextRejectedBeforeBackend ==
    (IsGenerate(last) /\ NothingButWhitespace(last.text))
        => (last.outcome = "ValueError" /\ last.nq = 0)

C6_Witness ==
    /\ IsGenerate(last)
    /\ last.text = PyStr(<<" ", "\n">>)
    /\ last.outcome = "ValueError"

\* C7: generate_embedding never returns a vector whose length is not 768: a
\* backend result of another length, or no row, makes the call fail, and a
\* returned vector is the backend's, neither truncated nor padded.
C7_OnlyVectorsOf768Returned ==
    IsGenerate(last) =>
        /\ last.outcome = "ok" => (VLen(last.result) = 768 /\ last.result = last.ans.value)
        /\ (last.ans.kind = "norows" \/ (last.ans.kind = "row" /\ last.ans.value.len # 768))
              => last.outcome = "Exception"

C7_Witness ==
    /\ IsGenerate(last)
    /\ last.ans.kind = "row"
    /\ last.ans.value = EmbLong
    /\ last.outcome = "Exception"

\* C8: every vector generate_embedding returns consists of 768 numbers: a
\* backend result of 768 elements with one that is no number is rejected.
C8_OnlyNumbersReturned ==
    (IsGenerate(last) /\ last.outcome = "ok")
        => /\ VLen(last.result) = 768
           /\ \A i \in 1..VLen(last.result) :
                 Item(last.result, i).ty \in {"int", "bool", "float"}

\* C9: for a text that is not blank, generate_embedding sends exactly one
\* query per call; when that query fails the caller gets an error, and
\* no second attempt is made.
C9_OneBackendCallPerGenerate ==
    (IsGenerate(last) /\ ~NothingButWhitespace(last.text))
        => /\ last.nq = 1
           /\ last.ans.kind = "raise" => last.outcome = "Exception"

C9_Witness ==
    /\ IsGenerate(last)
    /\ last.text = PyStr(<<"a", "'">>)
    /\ last.ans.kind = "raise"
    /\ last.outcome = "Exception"
    /\ last.nq = 1

\* C10: search_similar_tickets returns the empty list, without calling
\* generate_embedding and without any backend query, whenever the query is
\* empty or whitespace only or the limit is None or <= 0.
IsSearch(l) == l.op = "search_similar_tickets"

C10_BlankSearchShortCircuits ==
    (/\ IsSearch(last)
     /\ \/ NothingButWhitespace(last.query)
        \/ last.limit.ty = "NoneType"
        \/ last.limit.v <= 0)
        => (last.result = <<>> /\ last.ngen = 0 /\ last.nq = 0)

C10_Witness ==
    /\ IsSearch(last)
    /\ last.query = PyStr(<<"a">>)
    /\ last.limit = PyInt(0)
    /\ last.result = <<>>
    /\ \E i \in DOMAIN embeddings : embeddings[i].ticket_id # OrphanId

\* C11: search_similar_tickets never raises: whatever the query, the limit,
\* the outcome of the embedding generation and of the search query, the call
\* returns a list, and the list is empty whenever the embedding generation
\* or the search query failed.
EmbeddingFailed(l) ==
    l.ngen = 1 /\ (l.ans.kind # "row" \/ l.ans.value.ty # "list" \/ l.ans.value.len # 768)

C11_SearchNeverRaises ==
    IsSearch(last) =>
        /\ last.outcome = "ok"
        /\ DOMAIN last.result = 1..Len(last.result)
        /\ (EmbeddingFailed(last) \/ last.sql = "failed") => last.result = <<>>

C11_Witness ==
    /\ IsSearch(last)
    /\ last.sql = "failed"
    /\ last.ans = AnswerA
    /\ last.outcome = "ok"
    /\ last.result = <<>>
    /\ \E i \in DOMAIN embeddings :
          /\ embeddings[i].ticket_id # OrphanId
          /\ embeddings[i].embedding_vector = Float64Array(EmbA)

\* C12: every result search_similar_tickets returns has a similarity_score
\* of at least 0.5 and within [0, 1], whatever vectors are stored and
\* whatever the query vector is (scores in thousandths).
C12_ScoresWithinBounds ==
    IsSearch(last) =>
        \A k \in DOMAIN last.result :
            /\ last.result[k].similarity_score >= 500
            /\ last.result[k].similarity_score >= 0
            /\ last.result[k].similarity_score <= 1000

\* a search that returned a row while a row further than the threshold
\* from the query vector was in the table
C12_Witness ==
    /\ IsSearch(last)
    /\ last.result # <<>>
    /\ \E i \in DOMAIN embeddings :
          /\ embeddings[i].ticket_id # OrphanId
          /\ embeddings[i].embedding_vector # Float64Array(last.ans.value)

\* C13: for a query that is not blank and a limit > 0, with a working
\* backend, search_similar_tickets returns the candidates (the rows that join
\* a ticket) of similarity >= 0.5, by similarity descending, cut to the first
\* `limit`: at most `limit` entries, none below 0.5, no candidate left out
\* above one that is in, and none left out while there is room.
JoinedRows(T) == {i \in DOMAIN T : \E t \in Tickets : t.ticket_id = T[i].ticket_id}

C13_RankedAboveThreshold ==
    (/\ IsSearch(last)
     /\ ~NothingButWhitespace(last.query)
     /\ last.limit.ty = "int" /\ last.limit.v > 0
     /\ last.sql = "ok")
    => LET T == embeddings
           q == Float64Array(last.ans.value)
           res == last.result
           pass == {i \in JoinedRows(T) : Similarity(T[i].embedding_vector, q) >= 500}
       IN /\ Len(res) = Min(last.limit.v, Cardinality(pass))
          /\ \A j, k \in DOMAIN res :
                j < k => res[j].similarity_score >= res[k].similarity_score
          /\ \E f \in [DOMAIN res -> pass] :
                /\ \A j, k \in DOMAIN res : j # k => f[j] # f[k]
                /\ \A k \in DOMAIN res :
                      /\ res[k].ticket_id = T[f[k]].ticket_id
                      /\ res[k].similarity_score = Similarity(T[f[k]].embedding_vector, q)
                /\ \A i \in pass \ {f[k] : k \in DOMAIN res} :
                      \A k \in DOMAIN res :
                          Similarity(T[i].embedding_vector, q) <= res[k].similarity_score

\* similarities {0.9, 0.7, 0.4, 0.3} with limit 5 give [0.9, 0.7]
C13_Witness ==
    /\ IsSearch(last)
    /\ last.limit = PyInt(5)
    /\ Len(embeddings) = 4
    /\ {Similarity(embeddings[i].embedding_vector, Float64Array(EmbA)) :
            i \in DOMAIN embeddings} = {900, 700, 400, 300}
    /\ [k \in DOMAIN last.result |-> last.result[k].similarity_score] = <<900, 700>>

\* C14: with a deterministic embedding backend, after a ticket's text has
\* been composed (prepare_ticket_text), embedded (generate_embedding) and
\* stored under its id (store_embedding), the search_similar_tickets call
\* that follows at once with the ticket's description as query returns a
\* list that holds the ticket id with similarity >= 0.5 (checked for tickets
\* that have a row in kaggle_tickets_clean and a search query that runs).
EmbeddedBy(b, text) ==
    GenerateEmbeddingCall(text, [kind |-> "row", value |-> b[text]]).result

C14_StoredTicketFound ==
    [][(Stored(last) /\ IsSearch(last') /\ last'.sql = "ok")
       => \A t \in PipelineTickets, b \in Backends :
            (/\ last.args.vector = EmbeddedBy(b, PrepareTicketText(t))
             /\ last.args.ticket_id.v \in {x.ticket_id : x \in Tickets}
             /\ last'.query = t["description"]
             /\ last'.ans = [kind |-> "row", value |-> b[t["description"]]])
            => \E k \in DOMAIN last'.result :
                  /\ last'.result[k].ticket_id = last.args.ticket_id.v
                  /\ last'.result[k].similarity_score >= 500]_vars

\* C15: prepare_ticket_text returns one line per present field, in the order
\* Subject, Issue, Resolution, each value trimmed, joined by newlines, with
\* no blank line; with no present field it returns the empty string.
IsPrepare(l) == l.op = "prepare_ticket_text"

LogicalFields ==
    <<[bare |-> "subject", prefixed |-> "ticket_subject", label |-> SubjectLabel],
      [bare |-> "description", prefixed |-> "ticket_description", label |-> IssueLabel],
      [bare |-> "resolution", prefixed |-> "ticket_resolution", label |-> ResolutionLabel]>>

\* the value a ticket carries for a logical field: the one under the bare
\* name if the dict has that key, else the one under the prefixed name
Looked(ticket, f) ==
    IF f.bare \in DOMAIN ticket THEN ticket[f.bare]
    ELSE IF f.prefixed \in DOMAIN ticket THEN ticket[f.prefixed]
    ELSE NoText

NonBlankAt(s) == {i \in DOMAIN s : s[i] \notin Whitespace}

Trimmed(s) ==
    IF NonBlankAt(s) = {} THEN <<>>
    ELSE SubSeq(s, CHOOSE i \in NonBlankAt(s) : \A j \in NonBlankAt(s) : i <= j,
                   CHOOSE i \in NonBlankAt(s) : \A j \in NonBlankAt(s) : i >= j)

TrimmedValue(ticket, f) ==
    IF Looked(ticket, f).ty = "NoneType" THEN <<>> ELSE Trimmed(StrOf(Looked(ticket, f)))

PresentFields(ticket) == SelectSeq(LogicalFields, LAMBDA f : TrimmedValue(ticket, f) # <<>>)

RECURSIVE SplitLines(_)
SplitLines(s) ==
    LET breaks == {i \in DOMAIN s : s[i] = "\n"} IN
    IF breaks = {} THEN <<s>>
    ELSE LET k == CHOOSE i \in breaks : \A j \in breaks : i <= j IN
         <<SubSeq(s, 1, k - 1)>> \o SplitLines(SubSeq(s, k + 1, Len(s)))

RECURSIVE Concat(_)
Concat(parts) == IF parts = <<>> THEN <<>> ELSE Head(parts) \o Concat(Tail(parts))

RenderedField(ticket, f) == f.label \o TrimmedValue(ticket, f)

C15_OneLinePerPresentField ==
    IsPrepare(last) =>
        LET p == PresentFields(last.ticket)
            lines == SplitLines(last.result.s)
        IN IF p = <<>> THEN last.result.s = <<>>
           ELSE /\ Len(lines) = Len(p)
                /\ \A k \in DOMAIN p : lines[k] = RenderedField(last.ticket, p[k])
                /\ \A k \in DOMAIN lines : NonBlankAt(lines[k]) # {}

\* C15, amended: prepare_ticket_text returns the present fields' renderings
\* ("Subject: v", "Issue: v", "Resolution: v", v the trimmed value) in that
\* order joined by newlines, and the empty string with no present field; the
\* output has one line per present field and no blank line when no trimmed
\* value holds a line break.
HasLineBreak(s) == \E i \in DOMAIN s : s[i] \in {"\n", "\r"}

C15_PresentFieldsJoined ==
    IsPrepare(last) =>
        LET p == PresentFields(last.ticket)
            lines == SplitLines(last.result.s)
        IN /\ last.result.s =
                Concat([k \in DOMAIN p |->
                           (IF k = 1 THEN <<>> ELSE <<"\n">>) \o RenderedField(last.ticket, p[k])])
           /\ p = <<>> => last.result.s = <<>>
           /\ (p # <<>> /\ \A k \in DOMAIN p : ~HasLineBreak(TrimmedValue(last.ticket, p[k])))
                 => /\ Len(lines) = Len(p)
                    /\ \A k \in DOMAIN p : lines[k] = RenderedField(last.ticket, p[k])
                    /\ \A k \in DOMAIN lines : NonBlankAt(lines[k]) # {}

C15_Witness ==
    /\ IsPrepare(last)
    /\ DOMAIN last.ticket = {"subject", "ticket_description", "resolution", "ticket_resolution"}
    /\ last.ticket["subject"] = PyStr(<<" ", "a", " ">>)
    /\ last.ticket["ticket_description"] = PyInt(5)
    /\ last.ticket["resolution"] = PyStr(<<" ">>)
    /\ last.result.s = SubjectLabel \o <<"a", "\n">> \o IssueLabel \o <<"5">>

\* C16: prepare_ticket_text does not depend on the name a field comes under:
\* a record that carries a value under the bare name and the record that
\* carries it under the ticket_ name instead give the same output.
Renamed(ticket, from, to) ==
    [k \in (DOMAIN ticket \ {from}) \cup {to} |-> IF k = to THEN ticket[from] ELSE ticket[k]]

C16_FieldNameAgnostic ==
    IsPrepare(last) =>
        \A k \in DOMAIN LogicalFields :
            LET f == LogicalFields[k] IN
            (f.bare \in DOMAIN last.ticket /\ f.prefixed \notin DOMAIN last.ticket)
                => PrepareTicketText(Renamed(last.ticket, f.bare, f.prefixed)) = last.result

C16_Witness ==
    /\ IsPrepare(last)
    /\ DOMAIN last.ticket = {"subject", "description", "ticket_resolution"}
    /\ last.ticket["description"] = PyStr(<<" ", "a", " ">>)
    /\ last.result.s # <<>>

\* C17: generate_ticket_embedding raises ValueError, with no query sent, when
\* the composed text is empty (no field is present); otherwise what it
\* returns or raises is what generate_embedding does on the composed text.
IsTicketEmbed(l) == l.op = "generate_ticket_embedding"

C17_TicketEmbeddingDelegates ==
    IsTicketEmbed(last) =>
        IF PresentFields(last.ticket) = <<>>
        THEN last.outcome = "ValueError" /\ last.nq = 0
        ELSE LET g == GenerateEmbeddingCall(PrepareTicketText(last.ticket), last.ans) IN
             /\ last.outcome = g.outcome
             /\ last.result = g.result
             /\ last.nq = g.nq

C17_Witness ==
    /\ IsTicketEmbed(last)
    /\ DOMAIN last.ticket = {"subject", "ticket_subject"}
    /\ last.ticket["subject"] = NoText
    /\ last.ticket["ticket_subject"] = PyStr(<<" ", "a", " ">>)
    /\ last.outcome = "ValueError"
    /\ last.nq = 0

\* C18: format_rag_context returns the empty string for an empty list; for
\* results that carry (ticket_id, subject, description, resolution) it
\* returns "Similar Cases:" and then, per result in order, the lines
\* "Case #{id}: {subject}", "Issue: {description}", "Resolution:
\* {resolution}", with "---" between results and none at the end.
IsFormat(l) == l.op = "format_rag_context"

NewLine == <<"\n">>

\* the block of one result, its texts read under the keys names
ExpectedCase(t, names) ==
    CaseLabel \o StrOf(t["ticket_id"]) \o <<":", " ">> \o names[1] \o NewLine
    \o ContextIssueLabel \o names[2] \o NewLine
    \o ContextResolutionLabel \o names[3]

TextUnder(t, key) ==
    IF key \in DOMAIN t /\ t[key].ty = "str" THEN t[key].s ELSE <<>>

ExpectedContext(tickets, keys) ==
    Concat([k \in DOMAIN tickets |->
              (IF k = 1 THEN ContextHeader \o NewLine ELSE NewLine \o Separator \o NewLine)
              \o ExpectedCase(tickets[k], [j \in 1..3 |-> TextUnder(tickets[k], keys[j])])])

Carries(t, keys) == \A j \in 1..3 : keys[j] \in DOMAIN t /\ t[keys[j]].ty = "str"

C18_ContextOfNamedFields ==
    IsFormat(last) =>
        IF last.tickets = <<>> THEN last.result.s = <<>>
        ELSE (\A k \in DOMAIN last.tickets :
                 Carries(last.tickets[k], <<"subject", "description", "resolution">>))
             => last.result.s =
                   ExpectedContext(last.tickets, <<"subject", "description", "resolution">>)

\* C18, amended: the same, the fields of a result being read under the keys
\* ticket_id, ticket_subject, ticket_description and ticket_resolution (the
\* keys search_similar_tickets writes); a text that is missing or None is
\* printed as the empty text.
C18_ContextOfTicketFields ==
    IsFormat(last) =>
        IF last.tickets = <<>> THEN last.result.s = <<>>
        ELSE last.result.s =
                ExpectedContext(last.tickets,
                                <<"ticket_subject", "ticket_description", "ticket_resolution">>)

C18_Witness ==
    /\ IsFormat(last)
    /\ Len(last.tickets) = 2
    /\ \A k \in 1..2 :
          Carries(last.tickets[k],
                  <<"ticket_subject", "ticket_description", "ticket_resolution">>)
    /\ last.tickets[1]["ticket_id"] = PyInt(1)
    /\ last.tickets[2]["ticket_id"] = PyInt(12)
    /\ last.tickets[1]["ticket_description"].s = <<"D">>
    /\ last.tickets[2]["ticket_description"].s = <<"D">>
    /\ last.result.s =
          ContextHeader \o NewLine
          \o CaseLabel \o <<"1", ":", " ", "S">> \o NewLine
          \o ContextIssueLabel \o <<"D">> \o NewLine
          \o ContextResolutionLabel \o <<"R">> \o NewLine
          \o Separator \o NewLine
          \o CaseLabel \o <<"1", "2", ":", " ", "S">> \o NewLine
          \o ContextIssueLabel \o <<"D">> \o NewLine
          \o ContextResolutionLabel \o <<"R">>

\* C19: for every text that is not blank, whatever its characters (quotes,
\* backslashes, newlines, carriage returns), the query generate_embedding
\* sends carries the text as one string literal that ends at the closing
\* quote the code writes, and the text the backend reads is the input text.
C19_TextEmbeddedVerbatim ==
    (IsGenerate(last) /\ ~NothingButWhitespace(last.text))
        => LET r == ReadLiteral(last.sent \o QueryTail, 1, <<>>) IN
           /\ r.status = "closed"
           /\ r.end = Len(last.sent) + 1
           /\ r.text = last.text.s

\* C20: created_at is set only when a record is inserted: a
\* store_embedding(upsert=True) call for a ticket_id that has a record
\* replaces its vector and its text_content, leaves its created_at as it
\* was, and leaves the records of every other ticket_id as they were.
C20_UpsertKeepsCreatedAt ==
    [][/\ \A i \in DOMAIN embeddings :
             /\ i \in DOMAIN embeddings'
             /\ embeddings'[i].created_at = embeddings[i].created_at
       /\ (/\ Stored(last')
           /\ last'.args.upsert
           /\ RowsOf(embeddings, last'.args.ticket_id.v) # {})
          => /\ Len(embeddings') = Len(embeddings)
             /\ \A i \in DOMAIN embeddings :
                   IF embeddings[i].ticket_id = last'.args.ticket_id.v
                   THEN embeddings'[i] =
                           Row(embeddings[i].ticket_id, Float64Array(last'.args.vector),
                               TextOrEmpty(last'.args.text), embeddings[i].created_at)
                   ELSE embeddings'[i] = embeddings[i]]_vars

\* an upsert that succeeded on a record inserted by an earlier call, with a
\* record of another ticket in the table
C20_Witness ==
    /\ Stored(last)
    /\ last.args.upsert
    /\ \E i \in RowsOf(embeddings, last.args.ticket_id.v) :
          /\ embeddings[i].created_at < now - 1
          /\ embeddings[i].embedding_vector = Float64Array(last.args.vector)
          /\ embeddings[i].text_content = TextOrEmpty(last.args.text)
    /\ \E i \in DOMAIN embeddings :
          /\ embeddings[i].ticket_id # last.args.ticket_id.v
          /\ embeddings[i].embedding_vector # Float64Array(last.args.vector)

\* C21: in prepare_ticket_text the ticket_ name of a field is consulted
\* exactly when the bare name is absent: a prefixed value that is present and
\* not blank is rendered whenever the bare name supplies no value, and the
\* bare name's value wins when both names carry values that are not blank.
Supplies(ticket, key) ==
    /\ key \in DOMAIN ticket
    /\ ticket[key].ty # "NoneType"
    /\ Trimmed(StrOf(ticket[key])) # <<>>

\* the value the claim has rendered for field f (empty: no line)
ClaimedValue(ticket, f) ==
    IF Supplies(ticket, f.bare) THEN Trimmed(StrOf(ticket[f.bare]))
    ELSE IF Supplies(ticket, f.prefixed) THEN Trimmed(StrOf(ticket[f.prefixed]))
    ELSE <<>>

C21_PrefixedNameIsFallback ==
    IsPrepare(last) =>
        LET p == SelectSeq(LogicalFields, LAMBDA f : ClaimedValue(last.ticket, f) # <<>>) IN
        last.result.s =
            Concat([k \in DOMAIN p |->
                       (IF k = 1 THEN <<>> ELSE <<"\n">>)
                       \o p[k].label \o ClaimedValue(last.ticket, p[k])])

\* C22: the store route, given an integer ticket_id and a body with a vector
\* of 768 numbers and a resolution text, with a working backend, upserts the
\* record of that ticket_id through store_embedding and returns its success
\* outcome.
IsEndpoint(l) == l.op = "store_ticket_embedding"

C22_StoreRouteUpserts ==
    [][(/\ IsEndpoint(last')
        /\ last'.working
        /\ ~NotAnInteger(last'.args.ticket_id)
        /\ ~NotAVectorOf768Numbers(last'.args.vector))
       => /\ last'.outcome = "success"
          /\ RowsOf(embeddings', last'.args.ticket_id.v) # {}
          /\ HoldsPayload(embeddings', last'.args.ticket_id.v, last'.args)]_vars

\* C23: batch_embed_tickets(limit), with a working backend, embeds the
\* description of and stores a record for every fetched ticket whose status
\* is "resolved" and whose description is not blank, skips every other
\* ticket without writing, and returns the number of tickets it stored.
IsBatch(l) == l.op = "batch_embed_tickets"

ToStore(tickets) ==
    {k \in DOMAIN tickets :
        /\ tickets[k].ticket_status = "resolved"
        /\ ~NothingButWhitespace(tickets[k].ticket_description)}

C23_BatchStoresResolvedTickets ==
    [][(IsBatch(last') /\ last'.fetchOk /\ last'.ans = AnswerA)
       => LET ts == last'.tickets
              ids == {ts[k].ticket_id : k \in ToStore(ts)}
          IN /\ last'.outcome = "ok"
             /\ last'.count = Cardinality(ToStore(ts))
             /\ \A id \in ids :
                   /\ RowsOf(embeddings', id) # {}
                   /\ \A i \in RowsOf(embeddings', id) :
                         embeddings'[i].embedding_vector = Float64Array(EmbA)
             /\ \A i \in DOMAIN embeddings :
                   embeddings[i].ticket_id \notin ids => embeddings'[i] = embeddings[i]
             /\ \A i \in DOMAIN embeddings' :
                   embeddings'[i].ticket_id \notin ids
                      => i \in DOMAIN embeddings /\ embeddings'[i] = embeddings[i]]_vars

\* C24: after any sequence of store_embedding calls, upserts or plain
\* inserts, the list search_similar_tickets returns holds each ticket_id at
\* most once, and every ticket_id in it has an embedding record and a row
\* of the tickets table; a record without a ticket is never returned and
\* never makes the search fail.
C24_SearchReturnsEachTicketOnce ==
    (IsSearch(last) /\ last.sql = "ok")
    => /\ last.outcome = "ok"
       /\ \A j, k \in DOMAIN last.result :
             last.result[j].ticket_id = last.result[k].ticket_id => j = k
       /\ \A k \in DOMAIN last.result :
             /\ RowsOf(embeddings, last.result[k].ticket_id) # {}
             /\ \E t \in Tickets : t.ticket_id = last.result[k].ticket_id

\* C25: generate_embedding, generate_ticket_embedding, prepare_ticket_text,
\* search_similar_tickets and format_rag_context leave the embeddings table
\* as it is on every outcome, and no operation keeps state from one call to
\* the next: the same call made twice in a row, with the same backend
\* answers, has the same outcome (a search: the same scores in the same
\* order, the backend being free in the order of equal scores).
IsRead(l) == l.op \in {"generate_embedding", "generate_ticket_embedding", "prepare_ticket_text", "search_similar_tickets", "format_rag_context"}

Scores(result) == [k \in DOMAIN result |-> result[k].similarity_score]

C25_ReadsLeaveTableAndKeepNoState ==
    [][/\ IsRead(last') => embeddings' = embeddings
       /\ (/\ IsGenerate(last) /\ IsGenerate(last')
           /\ last'.text = last.text
           /\ last'.ans = last.ans)
          => last'.outcome = last.outcome /\ last'.result = last.result
       /\ (/\ IsSearch(last) /\ IsSearch(last')
           /\ last'.query = last.query /\ last'.limit = last.limit
           /\ last'.ans = last.ans /\ last'.sql = last.sql)
          => /\ last'.outcome = last.outcome
             /\ Scores(last'.result) = Scores(last.result)]_vars

====
